---------------------------- MODULE Spec2Model ----------------------------
(***************************************************************************)
(* PIXI caliper measurement dashboard (src/main.py).                       *)
(*                                                                         *)
(* The App object is modelled as a state machine: the constructor          *)
(* (App.__init__) resolves the project, initialises the session state,     *)
(* loads and joins the two tables and renders the three tabs; afterwards   *)
(* every sidebar widget change stores the widget value and runs            *)
(* App._update_plot.                                                       *)
(*                                                                         *)
(* A data frame is a record [columns, index, rows]: the ordered column     *)
(* names, the row labels (the pandas index) and one record per row keyed   *)
(* by column name.  A missing value (NaN / NaT / None in a column) is the  *)
(* string NaN.  Timestamps are counted in ticks, TicksPerDay ticks a day;  *)
(* a date (datetime.date) is a whole number of days.  Volumes are counted  *)
(* in halves (the code multiplies integers by 0.5).                        *)
(***************************************************************************)
EXTENDS Integers, Sequences, FiniteSets, TLC

(***************************************************************************)
(* Bounds of the model.                                                    *)
(***************************************************************************)
\* ticks in a day: the resolution of a timestamp
TicksPerDay == 2
\* dates range over the days 0..MaxDay
MaxDay == 1
\* rows of the measurement export
MaxRows == 2
\* rows of the implant export
MaxPdxRows == 2
\* length and width of a measurement range over 0..MaxDim
MaxDim == 2
\* number of entries a multiselect widget holds at most
MaxExcluded == 2
\* number of groups of the largest table of the palette family
MaxPaletteGroups == 11

(***************************************************************************)
(* Values.                                                                 *)
(***************************************************************************)
NaN == "NaN"
None == "None"
\* a date input without a date (None where a datetime.date is expected)
NoDate == 0 - 1

\* subject labels, group names and implant ids, each in lexicographic order
SubjectNames == <<"A", "B", "C", "D", "E", "F", "G", "H", "I", "J", "K", "L">>
GroupNames == <<"arm01", "arm02", "arm03", "arm04", "arm05", "arm06", "arm07",
                "arm08", "arm09", "arm10", "arm11", "arm12", "ctrl", "treat">>
GroupTitles == <<"Arm01", "Arm02", "Arm03", "Arm04", "Arm05", "Arm06", "Arm07",
                 "Arm08", "Arm09", "Arm10", "Arm11", "Arm12", "Ctrl", "Treat">>
PdxNames == <<"PDX-1", "PDX-2", "PDX-3">>

Range(s) == {s[i] : i \in 1..Len(s)}

Min(S) == CHOOSE x \in S : \A y \in S : x <= y
Max(S) == CHOOSE x \in S : \A y \in S : y <= x

\* Python truthiness of an optional string: None and "" are false
Truthy(x) == x # None /\ x # ""

(***************************************************************************)
(* pandas: the operations of the pipeline.                                 *)
(***************************************************************************)
EmptyFrame == [columns |-> <<>>, index |-> <<>>, rows |-> <<>>]

\* pd.read_csv: a frame over the columns of the export, RangeIndex 0..n-1
ReadCsv(columns, records) ==
    [columns |-> columns,
     index   |-> [i \in 1..Len(records) |-> i - 1],
     rows    |-> records]

\* the numbers of a set in ascending order
RECURSIVE Ascending(_)
Ascending(I) == IF I = {} THEN <<>> ELSE <<Min(I)>> \o Ascending(I \ {Min(I)})

\* df.iloc[positions]: the rows at the given positions, with their labels
Pick(df, positions) ==
    [columns |-> df.columns,
     index   |-> [k \in 1..Len(positions) |-> df.index[positions[k]]],
     rows    |-> [k \in 1..Len(positions) |-> df.rows[positions[k]]]]

Column(df, c) == [i \in 1..Len(df.rows) |-> df.rows[i][c]]

\* Series.unique(): the values in order of first appearance (NaN once)
Firsts(s) == Ascending({i \in 1..Len(s) : \A j \in 1..(i - 1) : s[j] # s[i]})

Unique(s) == [k \in 1..Len(Firsts(s)) |-> s[Firsts(s)[k]]]

\* df.drop(columns=...)
Drop(df, cols) ==
    LET keep == SelectSeq(df.columns, LAMBDA c : c \notin cols)
    IN [df EXCEPT !.columns = keep,
                  !.rows = [i \in 1..Len(df.rows) |->
                              [c \in Range(keep) |-> df.rows[i][c]]]]

\* df.rename(columns=mapping): names the frame does not hold are ignored
Rename(df, mapping) ==
    LET new(c) == IF c \in DOMAIN mapping THEN mapping[c] ELSE c
        old(n) == CHOOSE c \in Range(df.columns) : new(c) = n
        cols == [k \in 1..Len(df.columns) |-> new(df.columns[k])]
    IN [df EXCEPT !.columns = cols,
                  !.rows = [i \in 1..Len(df.rows) |->
                              [n \in Range(cols) |-> df.rows[i][old(n)]]]]

\* df[name] = values: a new column is appended, an existing one overwritten
SetColumn(df, name, values) ==
    LET cols == IF name \in Range(df.columns) THEN df.columns
                ELSE Append(df.columns, name)
    IN [df EXCEPT !.columns = cols,
                  !.rows = [i \in 1..Len(df.rows) |->
                              [c \in Range(cols) |->
                                  IF c = name THEN values[i] ELSE df.rows[i][c]]]]

\* df[mask]: a new frame of the rows whose mask entry is true, labels kept
Mask(df, mask) == Pick(df, Ascending({i \in 1..Len(df.rows) : mask[i]}))

\* Series == value: a missing value equals nothing, itself included
Eq(a, b) == a # NaN /\ b # NaN /\ a = b

\* Series.isin(values): a missing value is in a list that holds one
IsIn(a, values) == a \in values

\* df.sort_values(by=...): ascending; rows with equal keys keep their order
\* (numpy sorts arrays this short by insertion)
RECURSIVE SortOrder(_, _)
SortOrder(df, by) ==
    IF Len(df.rows) = 0 THEN <<>>
    ELSE LET n == Len(df.rows)
             front == [df EXCEPT !.rows = SubSeq(df.rows, 1, n - 1),
                                 !.index = SubSeq(df.index, 1, n - 1)]
             rest == SortOrder(front, by)
             k == Cardinality({j \in 1..Len(rest) :
                                  df.rows[rest[j]][by] <= df.rows[n][by]})
         IN SubSeq(rest, 1, k) \o <<n>> \o SubSeq(rest, k + 1, Len(rest))

SortValues(df, by) == Pick(df, SortOrder(df, by))

\* pd.to_datetime of a <<day, tick of the day>> text
ToDatetime(text) == text[1] * TicksPerDay + text[2]

\* pd.Timestamp(date): midnight of the date
Timestamp(date) == date * TicksPerDay

\* Timestamp -> datetime.date, as st.date_input stores its default
DateOf(ts) == ts \div TicksPerDay

\* Timedelta.days: whole days, rounded down
Days(delta) == delta \div TicksPerDay

\* an inner join would drop the left rows without a match
MergeInner(left, right, on) ==
    LET extra == SelectSeq(right.columns, LAMBDA c : c # on)
        cols == left.columns \o extra
        both(l, r) == [c \in Range(cols) |->
                            IF c \in Range(left.columns) THEN l[c] ELSE r[c]]
        RECURSIVE Rows(_)
        Rows(i) ==
            IF i > Len(left.rows) THEN <<>>
            ELSE LET l == left.rows[i]
                     m == SelectSeq(right.rows, LAMBDA r : r[on] = l[on])
                 IN [k \in 1..Len(m) |-> both(l, m[k])] \o Rows(i + 1)
        rows == Rows(1)
    IN [columns |-> cols,
        index   |-> [i \in 1..Len(rows) |-> i - 1],
        rows    |-> rows]

\* left.merge(right, how='left', left_on=on, right_on=on): every left row, in
\* the left order, once per matching right row (in the right order), or once
\* with missing right values when nothing matches; the result is relabelled
Merge(left, right, on) ==
    LET extra == SelectSeq(right.columns, LAMBDA c : c # on)
        cols == left.columns \o extra
        both(l, r) == [c \in Range(cols) |->
                            IF c \in Range(left.columns) THEN l[c] ELSE r[c]]
        padded(l) == [c \in Range(cols) |->
                            IF c \in Range(left.columns) THEN l[c] ELSE NaN]
        RECURSIVE Rows(_)
        Rows(i) ==
            IF i > Len(left.rows) THEN <<>>
            ELSE LET l == left.rows[i]
                     m == SelectSeq(right.rows, LAMBDA r : r[on] = l[on])
                 IN (IF Len(m) = 0 THEN <<padded(l)>>
                     ELSE [k \in 1..Len(m) |-> both(l, m[k])]) \o Rows(i + 1)
        rows == Rows(1)
    IN [columns |-> cols,
        index   |-> [i \in 1..Len(rows) |-> i - 1],
        rows    |-> rows]


(***************************************************************************)
(* The remote data source and the environment.                             *)
(***************************************************************************)
\* the projects the server holds
Projects == {"P1"}

\* values of the project_id argument and of XNAT_ITEM_ID, XNAT_XSI_TYPE
ProjectIdArgs == {None, "", "P1", "P2"}
ItemIds == {None, "P1"}
XsiTypes == {None, "xnat:projectData", "xnat:subjectData"}

\* columns of the two exports
MeasurementCsvColumns ==
    <<"pixi:calipermeasurementdata/id", "date",
      "pixi:calipermeasurementdata/weight",
      "pixi:calipermeasurementdata/length",
      "pixi:calipermeasurementdata/width",
      "subject_label", "xnat:subjectdata/group", "URI">>
PdxCsvColumns ==
    <<"pixi:pdxdata/id", "date", "pixi:pdxdata/sourceid",
      "pixi:pdxdata/injectionsite", "subject_label", "URI">>

\* one record of the measurement export
MeasurementRecord(k, subject, group, day, tick, length, width) ==
    [c \in Range(MeasurementCsvColumns) |->
        CASE c = "pixi:calipermeasurementdata/id"     -> k
          [] c = "date"                               -> <<day, tick>>
          [] c = "pixi:calipermeasurementdata/weight" -> 20
          [] c = "pixi:calipermeasurementdata/length" -> length
          [] c = "pixi:calipermeasurementdata/width"  -> width
          [] c = "subject_label"                      -> subject
          [] c = "xnat:subjectdata/group"             -> group
          [] c = "URI"                                -> "/data/experiments"]

\* one record of the implant export
PdxRecord(k, subject, day) ==
    [c \in Range(PdxCsvColumns) |->
        CASE c = "pixi:pdxdata/id"            -> k
          [] c = "date"                       -> <<day, 0>>
          [] c = "pixi:pdxdata/sourceid"      -> PdxNames[k]
          [] c = "pixi:pdxdata/injectionsite" -> "flank"
          [] c = "subject_label"              -> subject
          [] c = "URI"                        -> "/data/experiments"]

(***************************************************************************)
(* State.                                                                  *)
(***************************************************************************)
VARIABLES
    environ,               \* os.environ: XNAT_ITEM_ID and XNAT_XSI_TYPE
    given_project_id,      \* the project_id argument App was constructed with
    pc,                    \* "new", "idle" (awaiting a filter change), "error"
    error,                 \* the exception that ended the session, or None
    connected,             \* xnat.connect has returned
    _project_id,           \* App._project_id
    session_state,         \* st.session_state, a mapping from its keys
    cache,                 \* load_data's cache: the export fetched for each request
    _caliper_measurements, \* App._caliper_measurements
    _pdxs,                 \* App._pdxs
    joined,                \* the working table as the join at load made it
    _excluded_subjects,    \* App._excluded_subjects (multiselect value)
    _excluded_groups,      \* App._excluded_groups (multiselect value)
    _start_date,           \* App._start_date (date_input value)
    start_date_chosen,     \* the user has picked a date in the date input
    tab1, tab2, tab3       \* what the three tab placeholders show

vars == <<environ, given_project_id, pc, error, connected, _project_id,
          session_state, cache, _caliper_measurements, _pdxs, joined,
          _excluded_subjects, _excluded_groups, _start_date,
          start_date_chosen, tab1, tab2, tab3>>

widgets == <<_excluded_subjects, _excluded_groups, _start_date, start_date_chosen>>
tabs == <<tab1, tab2, tab3>>

\* a placeholder before anything is written into it (st.empty())
EmptySlot == [kind |-> "empty"]


(***************************************************************************)
(* App: start-up.                                                          *)
(***************************************************************************)
\* a resolution that takes XNAT_ITEM_ID whatever XNAT_XSI_TYPE says
ResolveProjectIdAnyType(project_id, item_id, xsi_type) ==
    IF Truthy(project_id) THEN project_id ELSE item_id

\* the project id of __init__: the argument, else XNAT_ITEM_ID when
\* XNAT_XSI_TYPE names a project, else None
ResolveProjectId(project_id, item_id, xsi_type) ==
    IF Truthy(project_id) THEN project_id
    ELSE IF xsi_type = "xnat:projectData" THEN item_id ELSE None

\* the values _init_session_state gives the keys the state does not hold
SessionDefaults(project_id) ==
    [project    |-> [id |-> project_id],
     project_id |-> project_id,
     subjects   |-> <<>>,
     groups     |-> <<>>,
     pdxs       |-> <<>>]

\* _init_session_state
InitSessionState(state, project_id) ==
    [k \in DOMAIN state \cup DOMAIN SessionDefaults(project_id) |->
        IF k \in DOMAIN state THEN state[k] ELSE SessionDefaults(project_id)[k]]

\* list.sort() of a list of distinct names; a list that mixes a missing value
\* (a float) with names cannot be ordered (TypeError)
Sortable(list) == NaN \notin Range(list) \/ Range(list) = {NaN}

ListSort(list, alphabet) ==
    IF Range(list) = {NaN} THEN list
    ELSE SelectSeq(alphabet, LAMBDA x : x \in Range(list))

\* a volume that squares the length instead of the width
VolumeSwapped(length, width) == width * length * length

\* 0.5 * length * width * width, in halves
Volume(length, width) == length * width * width

\* df['volume'] = 0.5 * df[length] * df[width] * df[width]
AddVolume(df) ==
    SetColumn(df, "volume",
        [i \in 1..Len(df.rows) |->
            Volume(df.rows[i]["pixi:calipermeasurementdata/length"],
                   df.rows[i]["pixi:calipermeasurementdata/width"])])

\* df[column] = pd.to_datetime(df[column])
ParseDates(df, column) ==
    SetColumn(df, column, [i \in 1..Len(df.rows) |-> ToDatetime(df.rows[i][column])])

\* the short names of the measurement columns
MeasurementNames ==
    [c \in {"pixi:calipermeasurementdata/subject_id",
            "pixi:calipermeasurementdata/weight",
            "pixi:calipermeasurementdata/length",
            "pixi:calipermeasurementdata/width",
            "subject_label", "xnat:subjectdata/group"} |->
        CASE c = "pixi:calipermeasurementdata/subject_id" -> "subjectId"
          [] c = "pixi:calipermeasurementdata/weight" -> "weight"
          [] c = "pixi:calipermeasurementdata/length" -> "length"
          [] c = "pixi:calipermeasurementdata/width" -> "width"
          [] c = "subject_label" -> "subject"
          [] c = "xnat:subjectdata/group" -> "group"]

\* the short names of the implant columns
PdxNamesOfColumns ==
    [c \in {"pixi:pdxdata/sourceid", "pixi:pdxdata/injectionsite",
            "subject_label", "xnat:subjectdata/group", "date"} |->
        CASE c = "pixi:pdxdata/sourceid" -> "pdxId"
          [] c = "pixi:pdxdata/injectionsite" -> "injectionSite"
          [] c = "subject_label" -> "subject"
          [] c = "xnat:subjectdata/group" -> "group"
          [] c = "date" -> "injectionDate"]

\* _load_caliper_measurements, up to the assignment of the frame
CaliperFrame(records) ==
    SortValues(
        ParseDates(
            Rename(
                AddVolume(
                    Drop(ReadCsv(MeasurementCsvColumns, records),
                         {"URI", "pixi:calipermeasurementdata/id"})),
                MeasurementNames),
            "date"),
        "date")

\* _load_pdxs, up to the assignment of the frame
PdxFrame(records) ==
    SortValues(
        ParseDates(
            Rename(
                Drop(ReadCsv(PdxCsvColumns, records), {"URI", "pixi:pdxdata/id"}),
                PdxNamesOfColumns),
            "injectionDate"),
        "injectionDate")

\* the selector lists of the session state after _load_caliper_measurements
\* has extended them, the groups not yet sorted
WithSelectors(state, df) ==
    [state EXCEPT
        !.subjects = ListSort(Unique(Column(df, "subject")), SubjectNames),
        !.groups = Unique(Column(df, "group"))]

\* the session state after both loads
WithSortedSelectors(state, pdx) ==
    [state EXCEPT
        !.groups = ListSort(state.groups, GroupNames),
        !.pdxs = ListSort(Unique(Column(pdx, "pdxId")), PdxNames)]

\* the request key of load_data (URL, user, password): the project and type
Request(project_id, xsi_type) == [project |-> project_id, xsiType |-> xsi_type]

\* the earliest date of the frame (NaT, which nothing is compared with, when
\* the frame has no rows; no export is without rows)
MinDate(df) ==
    IF Len(df.rows) = 0 THEN 0 ELSE Min(Range(Column(df, "date")))

\* the default of the date input: the earliest measurement date
DefaultStartDate(df) == DateOf(MinDate(df))

(***************************************************************************)
(* App: the filtered view and the three renderings.                        *)
(***************************************************************************)
\* an exclusion without the negation: it keeps the excluded rows instead
ExcludeInverted(df, column, excluded) ==
    IF Cardinality(excluded) > 0
    THEN Mask(df, [i \in 1..Len(df.rows) |-> IsIn(df.rows[i][column], excluded)])
    ELSE df

\* df[~df[column].isin(excluded)] when anything is excluded, else df itself
Exclude(df, column, excluded) ==
    IF Cardinality(excluded) > 0
    THEN Mask(df, [i \in 1..Len(df.rows) |-> ~IsIn(df.rows[i][column], excluded)])
    ELSE df

\* a reference date that ignores the start date
ReferenceDateFromMin(df, start_date) == MinDate(df)

\* the date the days are counted from: the start date, or the earliest date
\* of the frame when there is none
ReferenceDate(df, start_date) ==
    IF start_date # NoDate THEN Timestamp(start_date) ELSE MinDate(df)

\* df['days'] = (df['date'] - reference).dt.days
SetDays(df, reference) ==
    SetColumn(df, "days",
        [i \in 1..Len(df.rows) |-> Days(df.rows[i].date - reference)])

\* a filter that assigns what it returns to self._caliper_measurements
ReturnedInPlace(cm, df, excluded_subjects, excluded_groups) ==
    [df     |-> Exclude(df, "group", excluded_groups),
     source |-> Exclude(df, "group", excluded_groups)]

\* what _get_filtered_data returns (df) and what the frame held by
\* self._caliper_measurements is afterwards (source), given the frame df that
\* got the days column: with no excluded subject df is the source frame
\* itself, and the column was written into it
Returned(cm, df, excluded_subjects, excluded_groups) ==
    [df     |-> Exclude(df, "group", excluded_groups),
     source |-> IF Cardinality(excluded_subjects) > 0 THEN cm ELSE df]

\* the frame of _get_filtered_data after the days column is set
DaysFrame(df, start_date) == SetDays(df, ReferenceDate(df, start_date))

\* _get_filtered_data
GetFilteredData(cm, excluded_subjects, excluded_groups, start_date) ==
    Returned(cm,
             DaysFrame(Exclude(cm, "subject", excluded_subjects), start_date),
             excluded_subjects, excluded_groups)

\* px.colors.qualitative.Plotly
colors == <<"#636EFA", "#EF553B", "#00CC96", "#AB63FA", "#FFA15A",
            "#19D3F3", "#FF6692", "#B6E880", "#FF97FF", "#FECB52">>

\* str.capitalize() of a group name
Capitalize(group) ==
    GroupTitles[CHOOSE k \in 1..Len(GroupNames) : GroupNames[k] = group]

\* df[df[column] == value]
Where(df, column, value) ==
    Mask(df, [i \in 1..Len(df.rows) |-> Eq(df.rows[i][column], value)])

\* go.Scatter(...) of one subject's rows; k is the place of the group among
\* the groups of the view, counted from 1
Scatter(subject_df, subject, group, k) ==
    [name |-> subject,
     x |-> Column(subject_df, "days"),
     y |-> Column(subject_df, "volume"),
     index |-> subject_df.index,
     mode |-> "lines+markers",
     color |-> colors[k],
     legendgroup |-> group,
     legendgrouptitle_text |-> Capitalize(group)]

\* the traces of one group: the inner loop of _plot_all_measurements
GroupTraces(group_df, subjects, group, k) ==
    [j \in 1..Len(subjects) |->
        Scatter(Where(group_df, "subject", subjects[j]), subjects[j], group, k)]

\* the outer loop of _plot_all_measurements from the k-th group on, with
\* the traces added so far: the traces of the figure, and the exception that
\* ends the loop (colors[i] for an i past the palette is an IndexError, raised
\* when the first trace of such a group is built)
RECURSIVE TracesFrom(_, _, _, _)
TracesFrom(df, groups, k, added) ==
    IF k > Len(groups) THEN [traces |-> added, error |-> None]
    ELSE IF Len(Where(df, "group", groups[k]).rows) > 0 /\ k > Len(colors)
    THEN [traces |-> added, error |-> "IndexError"]
    ELSE TracesFrom(df, groups, k + 1,
             added \o GroupTraces(Where(df, "group", groups[k]),
                          Unique(Column(Where(df, "group", groups[k]), "subject")),
                          groups[k], k))

Traces(df) == TracesFrom(df, Unique(Column(df, "group")), 1, <<>>)

\* st.plotly_chart(fig) of _plot_all_measurements
LineChart(traces) ==
    [kind |-> "plotly_chart", traces |-> traces,
     title |-> "Tumor Volume vs Time for All Subjects"]

\* _plot_box_plot: the points and the padded axis ranges (range_y in
\* twentieths: max + max * 0.1 of a volume in halves); a frame without rows
\* has no minimum or maximum
PlotBoxPlot(df) ==
    [kind |-> "plotly_chart",
     points |-> Len(df.rows),
     range_x |-> IF Len(df.rows) = 0 THEN <<NaN, NaN>>
                 ELSE <<Min(Range(Column(df, "days"))) - 2,
                        Max(Range(Column(df, "days"))) + 2>>,
     range_y |-> IF Len(df.rows) = 0 THEN <<0, NaN>>
                 ELSE <<0, 10 * Max(Range(Column(df, "volume")))
                           + Max(Range(Column(df, "volume")))>>,
     title |-> "Tumor Volume vs Time by Group"]

\* the third tab of _update_plot: st.dataframe of the third filtered view
ThirdTab(r3, slot1, slot2) ==
    [error |-> None, source |-> r3.source,
     tab1 |-> slot1, tab2 |-> slot2, tab3 |-> [kind |-> "dataframe", df |-> r3.df]]

\* the second tab of _update_plot, and on to the third
SecondTab(r2, slot1, excluded_subjects, excluded_groups, start_date) ==
    ThirdTab(GetFilteredData(r2.source, excluded_subjects, excluded_groups, start_date),
             slot1, PlotBoxPlot(r2.df))

\* the first tab of _update_plot, and on to the second; an exception leaves
\* the first slot emptied and the other two as they were
FirstTab(r1, plotted, excluded_subjects, excluded_groups, start_date, old2, old3) ==
    IF plotted.error # None
    THEN [error |-> plotted.error, source |-> r1.source,
          tab1 |-> EmptySlot, tab2 |-> old2, tab3 |-> old3]
    ELSE SecondTab(GetFilteredData(r1.source, excluded_subjects, excluded_groups,
                                   start_date),
                   LineChart(plotted.traces),
                   excluded_subjects, excluded_groups, start_date)

\* _plot_all_measurements on its own filtered view, then the rest
Plotted(r1, excluded_subjects, excluded_groups, start_date, old2, old3) ==
    FirstTab(r1, Traces(r1.df), excluded_subjects, excluded_groups, start_date,
             old2, old3)

\* _update_plot: the three tabs in turn, each with its own call of
\* _get_filtered_data
UpdatePlot(cm, excluded_subjects, excluded_groups, start_date, old2, old3) ==
    Plotted(GetFilteredData(cm, excluded_subjects, excluded_groups, start_date),
            excluded_subjects, excluded_groups, start_date, old2, old3)

(***************************************************************************)
(* Actions.                                                                *)
(***************************************************************************)
\* an unhandled exception ends the session
Raise(exception) ==
    /\ pc' = "error"
    /\ error' = exception

\* the tabs and the source frame after _update_plot
Show(shown) ==
    /\ _caliper_measurements' = shown.source
    /\ tab1' = shown.tab1
    /\ tab2' = shown.tab2
    /\ tab3' = shown.tab3
    /\ pc' = IF shown.error # None THEN "error" ELSE "idle"
    /\ error' = shown.error

\* _init_ui: the widgets take their defaults and _init_main ends in
\* _update_plot
InitUi(cm, date) ==
    /\ _excluded_subjects' = {}
    /\ _excluded_groups' = {}
    /\ _start_date' = date
    /\ start_date_chosen' = FALSE
    /\ Show(UpdatePlot(cm, {}, {}, date, EmptySlot, EmptySlot))

\* the rest of _load_data (the implant load and the join), then _init_ui
Join(pid, measurements, pdxs, state, cm0, pdx) ==
    /\ session_state' = WithSortedSelectors(state, pdx)
    /\ cache' = [r \in {Request(pid, "pixi:caliperMeasurementData"),
                        Request(pid, "pixi:pdxData")} |->
                    IF r.xsiType = "pixi:pdxData" THEN pdxs ELSE measurements]
    /\ _pdxs' = pdx
    /\ joined' = Merge(cm0, pdx, "subject")
    /\ InitUi(Merge(cm0, pdx, "subject"), DefaultStartDate(Merge(cm0, pdx, "subject")))

\* _load_caliper_measurements on the frame cm0, and whatever follows it
Load(pid, measurements, pdxs, state, cm0) ==
    IF ~Sortable(state.groups)
    THEN /\ Raise("TypeError")
         /\ session_state' = state
         /\ cache' = [r \in {Request(pid, "pixi:caliperMeasurementData")} |->
                         measurements]
         /\ _caliper_measurements' = cm0
         /\ UNCHANGED <<_pdxs, joined, widgets, tabs>>
    ELSE Join(pid, measurements, pdxs, state, cm0, PdxFrame(pdxs))

\* _init_session_state, _load_data, _init_ui: the server answers the two
\* requests with the exports measurements and pdxs
LoadAndShow(pid, measurements, pdxs) ==
    Load(pid, measurements, pdxs,
         WithSelectors(InitSessionState(session_state, pid),
                       CaliperFrame(measurements)),
         CaliperFrame(measurements))

\* __init__ once the project id is resolved
Construct(pid, connect_ok, exports, pdx_exports) ==
    /\ _project_id' = pid
    /\ IF ~connect_ok
       THEN /\ Raise("xnat.connect")
            /\ UNCHANGED <<connected, session_state, cache,
                           _caliper_measurements, _pdxs, joined, widgets, tabs>>
       ELSE /\ connected' = TRUE
            /\ IF ~Truthy(pid)
               THEN /\ Raise("Must be started from an XNAT project.")
                    /\ UNCHANGED <<session_state, cache, _caliper_measurements,
                                   _pdxs, joined, widgets, tabs>>
               ELSE IF pid \notin Projects
               THEN /\ Raise("Error connecting to project")
                    /\ UNCHANGED <<session_state, cache, _caliper_measurements,
                                   _pdxs, joined, widgets, tabs>>
               ELSE \E measurements \in exports, pdxs \in pdx_exports :
                       LoadAndShow(pid, measurements, pdxs)

\* App.__init__(project_id=argument), against a server that holds one of the
\* given exports
AppInit(argument, connect_ok, exports, pdx_exports) ==
    /\ pc = "new"
    /\ given_project_id' = argument
    /\ UNCHANGED environ
    /\ Construct(ResolveProjectId(argument, environ.XNAT_ITEM_ID,
                                  environ.XNAT_XSI_TYPE),
                 connect_ok, exports, pdx_exports)

\* a widget change: the widget's value is stored and on_change runs
\* _update_plot
Changed(excluded_subjects, excluded_groups, start_date) ==
    /\ _excluded_subjects' = excluded_subjects
    /\ _excluded_groups' = excluded_groups
    /\ _start_date' = start_date
    /\ Show(UpdatePlot(_caliper_measurements, excluded_subjects,
                       excluded_groups, start_date, tab2, tab3))
    /\ UNCHANGED <<environ, given_project_id, connected, _project_id,
                   session_state, cache, _pdxs, joined>>

\* the values a multiselect over the given options can take, of at most
\* most entries
Selections(options, most) ==
    {s \in SUBSET Range(options) : Cardinality(s) <= most}

\* the "Excluded Subjects" multiselect
ExcludeSubjects(most) ==
    /\ pc = "idle"
    /\ \E selection \in Selections(session_state.subjects, most) :
          /\ selection # _excluded_subjects
          /\ Changed(selection, _excluded_groups, _start_date)
    /\ UNCHANGED start_date_chosen

\* the "Excluded Groups" multiselect
ExcludeGroups(most) ==
    /\ pc = "idle"
    /\ \E selection \in Selections(session_state.groups, most) :
          /\ selection # _excluded_groups
          /\ Changed(_excluded_subjects, selection, _start_date)
    /\ UNCHANGED start_date_chosen

\* the "Start Date" date input
SetStartDate ==
    /\ pc = "idle"
    /\ \E date \in 0..MaxDay :
          /\ start_date_chosen \/ date # _start_date
          /\ Changed(_excluded_subjects, _excluded_groups, date)
    /\ start_date_chosen' = TRUE

(***************************************************************************)
(* The exports a server may hold.                                          *)
(***************************************************************************)
\* the measurement exports of up to MaxRows rows over the given subjects,
\* groups (one per subject), ticks of the day and sizes
MeasurementExports(subjects, groups, ticks, lengths, widths) ==
    UNION {{[k \in 1..n |->
                MeasurementRecord(k, t[k].subject, g[t[k].subject], t[k].day,
                                  t[k].tick, t[k].length, t[k].width)] :
               t \in [1..n -> [subject : subjects, day : 0..MaxDay, tick : ticks,
                               length : lengths, width : widths]],
               g \in [subjects -> groups]} :
           n \in 1..MaxRows}

\* the implant exports of up to most rows over the given subjects
PdxExports(subjects, most) ==
    UNION {{[k \in 1..n |-> PdxRecord(k, t[k], (n - k) % (MaxDay + 1))] :
               t \in [1..n -> subjects]} :
           n \in 0..most}

\* the palette family: one measurement for each of n subjects, each subject
\* in a group of its own
PaletteExport(n) ==
    [k \in 1..n |-> MeasurementRecord(k, SubjectNames[k], GroupNames[k], 0, 0, 1, 2)]

(***************************************************************************)
(* Specifications.                                                         *)
(***************************************************************************)
\* the state before App() is constructed, in one of the given environments
Start(environments) ==
    /\ environ \in environments
    /\ given_project_id = None
    /\ pc = "new"
    /\ error = None
    /\ connected = FALSE
    /\ _project_id = None
    /\ session_state = [k \in {} |-> None]
    /\ cache = [r \in {} |-> <<>>]
    /\ _caliper_measurements = EmptyFrame
    /\ _pdxs = EmptyFrame
    /\ joined = EmptyFrame
    /\ _excluded_subjects = {}
    /\ _excluded_groups = {}
    /\ _start_date = NoDate
    /\ start_date_chosen = FALSE
    /\ tab1 = EmptySlot
    /\ tab2 = EmptySlot
    /\ tab3 = EmptySlot

\* every environment
Environments == [XNAT_ITEM_ID : ItemIds, XNAT_XSI_TYPE : XsiTypes]

\* the environment of a session started from a project page, or from a
\* subject page
ProjectOrNot ==
    {[XNAT_ITEM_ID |-> "P1", XNAT_XSI_TYPE |-> "xnat:projectData"],
     [XNAT_ITEM_ID |-> "P1", XNAT_XSI_TYPE |-> "xnat:subjectData"]}

\* the steps of a session: the construction of App() and the widget changes
Run(arguments, exports, pdx_exports, most) ==
    \/ \E argument \in arguments, connect_ok \in BOOLEAN :
          AppInit(argument, connect_ok, exports, pdx_exports)
    \/ ExcludeSubjects(most)
    \/ ExcludeGroups(most)
    \/ SetStartDate

\* App() as the script calls it: subjects A and B, each in the group ctrl or
\* treat or in none, measured at any tick
Init == Start(ProjectOrNot)
Next == Run({None},
            MeasurementExports({"A", "B"}, {"ctrl", "treat", NaN},
                               0..(TicksPerDay - 1), {1}, {2}),
            PdxExports({"A"}, 1), MaxExcluded)
Spec == Init /\ [][Next]_vars

\* the join: implant exports with no, one or several records per subject
NextJoin == Run({None},
                MeasurementExports({"A", "B"}, {"ctrl"}, {0}, {1}, {2}),
                PdxExports({"A", "B"}, MaxPdxRows), MaxExcluded)
SpecJoin == Init /\ [][NextJoin]_vars

\* the volume: measurements of every length and width
NextVolume == Run({None},
                  MeasurementExports({"A"}, {"ctrl"}, {0}, 0..MaxDim, 0..MaxDim),
                  PdxExports({"A"}, 1), MaxExcluded)
SpecVolume == Init /\ [][NextVolume]_vars

\* the palette: as many groups as the palette has colours, and one more
NextPalette == Run({None},
                   {PaletteExport(n) : n \in (MaxPaletteGroups - 1)..MaxPaletteGroups},
                   PdxExports({"A"}, 0), 1)
SpecPalette == Init /\ [][NextPalette]_vars

\* start-up: every argument in every environment
InitStart == Start(Environments)
NextStart == Run(ProjectIdArgs,
                 MeasurementExports({"A"}, {"ctrl"}, {0}, {1}, {2}),
                 PdxExports({"A"}, 1), MaxExcluded)
SpecStart == InitStart /\ [][NextStart]_vars


(***************************************************************************)
(* Properties.                                                             *)
(***************************************************************************)
\* the three tabs show the current filter set
Idle == pc = "idle"

\* the filtered view the table tab shows
View == tab3.df

\* the export load_data fetched for the measurements
FetchedMeasurements == cache[Request(_project_id, "pixi:caliperMeasurementData")]

\* the export load_data fetched for the implants
FetchedPdxs == cache[Request(_project_id, "pixi:pdxData")]

\* C1 (as claimed): computing the filtered view leaves the working table as
\* the join at load made it: the same rows, columns and values.
C1_SourceUntouched == Idle => _caliper_measurements = joined

\* C2: the filtered view holds exactly the rows of the working table whose
\* subject is not excluded and whose group is not excluded, each once and
\* with the values of the working table.
C2_ExactlyTheKeptRows ==
    Idle =>
        /\ \A i \in 1..Len(joined.rows) :
              (/\ joined.rows[i].subject \notin _excluded_subjects
               /\ joined.rows[i].group \notin _excluded_groups)
              <=> \E k \in 1..Len(View.rows) : View.index[k] = joined.index[i]
        /\ \A k \in 1..Len(View.rows) :
              \E i \in 1..Len(joined.rows) :
                 /\ View.index[k] = joined.index[i]
                 /\ \A c \in Range(joined.columns) :
                       View.rows[k][c] = joined.rows[i][c]
        /\ \A k1, k2 \in 1..Len(View.rows) :
              View.index[k1] = View.index[k2] => k1 = k2

\* C2 happens: a subject and a group are excluded, and the view holds some
\* rows of the working table but not all
C2_Witness ==
    /\ Idle
    /\ _excluded_subjects # {}
    /\ _excluded_groups # {}
    /\ Len(View.rows) > 0
    /\ Len(View.rows) < Len(joined.rows)

\* the rows the left join makes of the measurement records: one per implant
\* record of the subject, and one when the subject has none
RECURSIVE JoinedRows(_, _)
JoinedRows(measurements, pdxs) ==
    IF Len(measurements) = 0 THEN 0
    ELSE Max({1, Cardinality({k \in 1..Len(pdxs) :
                pdxs[k].subject_label = Head(measurements).subject_label})})
         + JoinedRows(Tail(measurements), pdxs)

\* C3 (as claimed): the working table has exactly as many rows as the
\* measurement table, whatever the implant table holds.
C3_SameRowCount == Idle => Len(joined.rows) = Len(FetchedMeasurements)

\* C3 (amended): the working table holds every measurement once per implant
\* record of its subject, and once when the subject has none; it has exactly
\* as many rows as the measurement table when no subject has several implant
\* records, and never fewer.
C3_LeftJoinRowCount ==
    Idle =>
        /\ Len(joined.rows) = JoinedRows(FetchedMeasurements, FetchedPdxs)
        /\ Len(joined.rows) >= Len(FetchedMeasurements)
        /\ (\A k1, k2 \in 1..Len(FetchedPdxs) :
               FetchedPdxs[k1].subject_label = FetchedPdxs[k2].subject_label
               => k1 = k2)
           => Len(joined.rows) = Len(FetchedMeasurements)

\* C3 happens: one subject has several implant records, another has none,
\* and the working table is longer than the measurement table
C3_Witness ==
    /\ Idle
    /\ Len(joined.rows) > Len(FetchedMeasurements)
    /\ \E i \in 1..Len(joined.rows) : joined.rows[i].pdxId = NaN

\* C4 (as claimed): while the user has chosen no start date, the smallest
\* days value of the rows left after the subject exclusion is 0.
C4_MinDaysZero ==
    (/\ Idle
     /\ ~start_date_chosen
     /\ _excluded_groups = {}
     /\ Len(View.rows) > 0)
    => /\ \E k \in 1..Len(View.rows) : View.rows[k].days = 0
       /\ \A k \in 1..Len(View.rows) : View.rows[k].days >= 0

\* C5: with a chosen start date D, the days of a row dated T are T - D in
\* whole days, rounded down (negative when T is before D), whatever is
\* excluded.
C5_DaysFromStartDate ==
    (Idle /\ start_date_chosen) =>
        \A k \in 1..Len(View.rows) :
            /\ View.rows[k].days * TicksPerDay
                  <= View.rows[k].date - _start_date * TicksPerDay
            /\ View.rows[k].date - _start_date * TicksPerDay
                  < (View.rows[k].days + 1) * TicksPerDay

\* C5 happens: a start date is chosen, a subject is excluded, and a row of
\* the view is dated before the start date
C5_Witness ==
    /\ Idle
    /\ start_date_chosen
    /\ _excluded_subjects # {}
    /\ \E k \in 1..Len(View.rows) : View.rows[k].days < 0

\* C6: the view of a filter set does not depend on the computations made
\* before: it is the view the first computation on the table of the join
\* gives, and computing it once more gives it again.
C6_Idempotent ==
    Idle =>
        /\ View = GetFilteredData(joined, _excluded_subjects, _excluded_groups,
                                  _start_date).df
        /\ View = GetFilteredData(_caliper_measurements, _excluded_subjects,
                                  _excluded_groups, _start_date).df

\* C6 happens: subjects are excluded, and the source table still holds the
\* days column of an earlier computation with another start date
C6_Witness ==
    /\ Idle
    /\ _excluded_subjects # {}
    /\ Len(View.rows) > 0
    /\ \E i \in 1..Len(_caliper_measurements.rows) :
          _caliper_measurements.rows[i].days * TicksPerDay
             > _caliper_measurements.rows[i].date - _start_date * TicksPerDay

\* C7: constructed without a project id in an environment without a project
\* context, App ends in an error, with no session state initialised, no
\* table fetched and nothing rendered.
C7_NoProjectIsFatal ==
    (/\ pc # "new"
     /\ given_project_id = None
     /\ \/ environ.XNAT_ITEM_ID = None
        \/ environ.XNAT_XSI_TYPE # "xnat:projectData")
    => /\ pc = "error"
       /\ DOMAIN session_state = {}
       /\ DOMAIN cache = {}
       /\ _caliper_measurements = EmptyFrame
       /\ tab1 = EmptySlot /\ tab2 = EmptySlot /\ tab3 = EmptySlot

\* C7 happens: XNAT_ITEM_ID is set but XNAT_XSI_TYPE names no project, and
\* the constructor has raised
C7_Witness ==
    /\ pc = "error"
    /\ error = "Must be started from an XNAT project."
    /\ given_project_id = None
    /\ environ.XNAT_ITEM_ID = "P1"
    /\ environ.XNAT_XSI_TYPE = "xnat:subjectData"

C9_OneSeriesPerSubject ==
    Idle =>
        /\ {tab1.traces[j].name : j \in 1..Len(tab1.traces)}
              = {View.rows[k].subject : k \in 1..Len(View.rows)}
        /\ \A j1, j2 \in 1..Len(tab1.traces) :
              tab1.traces[j1].name = tab1.traces[j2].name => j1 = j2
        /\ \A j \in 1..Len(tab1.traces) :
              Range(tab1.traces[j].index)
                 = {View.index[k] : k \in {n \in 1..Len(View.rows) :
                        View.rows[n].subject = tab1.traces[j].name}}

\* C10 (as claimed): with any number of groups the all-measurements plot is
\* rendered, every series in the palette colour at the place of its group's
\* first appearance in the view, so that no two groups share a colour.
C10_RenderedAndColoured ==
    (pc # "new" /\ Cardinality(DOMAIN cache) = 2) =>
        /\ error # "IndexError"
        /\ tab1.kind = "plotly_chart"
        /\ \A j \in 1..Len(tab1.traces) :
              \E k \in 1..Len(View.rows) :
                 /\ View.rows[k].group = tab1.traces[j].legendgroup
                 /\ \A n \in 1..(k - 1) :
                       View.rows[n].group # tab1.traces[j].legendgroup
                 /\ tab1.traces[j].color
                       = colors[Cardinality({View.rows[n].group : n \in 1..k})]
        /\ \A j1, j2 \in 1..Len(tab1.traces) :
              (tab1.traces[j1].color = tab1.traces[j2].color)
              <=> (tab1.traces[j1].legendgroup = tab1.traces[j2].legendgroup)

=============================================================================
